---- MODULE Spec2Model ----
(***************************************************************************)
(* Model of src/src/App.jsx (the second, hardened App component, lines     *)
(* 104-327): the capture orchestrator captureData, its retry logic, the    *)
(* location resolver getLocationWithFallback and the timers and promise    *)
(* races they start.                                                       *)
(*                                                                         *)
(* JavaScript runs to completion between awaits, so there is one action    *)
(* per continuation: the code from one await to the next is one step.      *)
(* Outcomes of the browser and of the servers are inputs chosen with \E.   *)
(***************************************************************************)
EXTENDS Integers, Sequences, FiniteSets, TLC

(***************************************************************************)
(* Program constants                                                       *)
(***************************************************************************)
MAX_RETRIES == 3

\* the check mark character U+2713 of the success status
CheckMark == "[U+2713]"

\* status strings
LoadingMsg    == "Loading Resources..."
RequestingMsg == "Requesting camera access..."
CapturingMsg  == "Capturing photo..."
LocationMsg   == "Getting location..."
DeviceInfoMsg == "Getting device info..."
SavingMsg     == "Saving data..."
SuccessMsg    == CheckMark \o " Data captured and saved successfully!"
RetryingMsg   == "Retrying..."
FailedMsg     == "Failed to capture. Please refresh and try again."

(***************************************************************************)
(* Bounds                                                                  *)
(***************************************************************************)
\* the history counters attempts and failures saturate here
MaxCount == 5
\* the history counters posts and leaked saturate here
MaxTally == 2
\* number of captureData invocations that can be in progress at once
MaxRuns == 2

Slots == 1..MaxRuns

Sat(n) == IF n < MaxCount THEN n + 1 ELSE n
Tally(n) == IF n < MaxTally THEN n + 1 ELSE n

(***************************************************************************)
(* JavaScript values                                                       *)
(***************************************************************************)
Undefined == [t |-> "undefined"]
JsNull    == [t |-> "null"]
Str(s)    == [t |-> "string", v |-> s]
Num(n)    == [t |-> "number", v |-> n]

\* ToBoolean, as used by the || operator
Truthy(x) ==
    CASE x.t = "undefined" -> FALSE
      [] x.t = "null"      -> FALSE
      [] x.t = "string"    -> x.v # ""
      [] x.t = "number"    -> x.v # 0
      [] OTHER             -> TRUE

\* variant: a && b
JsOr_and(a, b) == IF Truthy(a) THEN b ELSE a

\* a || b
JsOr(a, b) == IF Truthy(a) THEN a ELSE b

\* d?.ip
OptIp(d) == IF d.t \in {"undefined", "null"} THEN Undefined ELSE d.ip

(***************************************************************************)
(* Inputs: what the browser and the servers can answer                     *)
(***************************************************************************)
\* messages of the errors getUserMedia rejects with
CameraErrors == {"Permission denied", "Requested device not found"}

\* coords delivered by the geolocation success callback
Positions == { [latitude |-> 48, longitude |-> 2, accuracy |-> 10],
               [latitude |-> 0,  longitude |-> 0, accuracy |-> 65] }

\* err.message of the geolocation error callback (may be empty)
GeoErrors == {"User denied Geolocation", ""}

\* parsed bodies of the IP lookup answer
IpBodies == { [t |-> "object", ip |-> Str("203.0.113.7")],
              [t |-> "object", ip |-> Str("")],
              [t |-> "object", ip |-> Undefined],
              JsNull }

\* response.ok / response.status of the upload answer
Responses == { [ok |-> TRUE, status |-> 200], [ok |-> FALSE, status |-> 500] }

StatusText(n) == IF n = 500 THEN "500" ELSE "200"

(***************************************************************************)
(* State                                                                   *)
(***************************************************************************)
VARIABLES
    page,               \* window.location and import.meta.env.VITE_API_URL
    mounted,            \* the mount effect has run
    status,             \* React state `status`
    retryCount,         \* React state `retryCount`
    trail,              \* history: the values passed to setStatus since the
                        \* retry timer or the mount started the latest attempt
    closureRetryCount,  \* retryCount as captured by the captureData closure
                        \* that the mount effect calls (and that calls itself)
    runs,               \* the invocations of captureData in progress
    timers,             \* pending deadline timers: [kind, run]; run = 0 when
                        \* the race the timer belongs to is already settled
    late,               \* operations that lost their race and can still
                        \* call back
    retryTimers,        \* pending 2000 ms retry timers
    attempts,           \* history: invocations of captureData
    failures,           \* history: executions of the catch block
    posts,              \* history: POST requests sent
    leaked              \* history: streams of finished runs never stopped

vars == <<page, mounted, status, retryCount, trail, closureRetryCount, runs, timers,
          late, retryTimers, attempts, failures, posts, leaked>>

react  == <<status, retryCount, trail>>
hist   == <<attempts, failures, posts, leaked>>

\* locals of one invocation; pc is the await it is suspended at
IdleRun == [pc |-> "idle", stream |-> "none", image |-> Undefined,
            location |-> Undefined, deviceInfo |-> Undefined,
            ipData |-> Undefined, payload |-> Undefined, apiUrl |-> "",
            response |-> [ok |-> FALSE, status |-> 0],
            geo |-> "none", ipLookup |-> "none"]

Running(r) == runs[r].pc # "idle"
InProgress == {r \in Slots : Running(r)}
FreeSlots  == {r \in Slots : ~Running(r)}
FreeSlot   == CHOOSE r \in FreeSlots : \A q \in FreeSlots : r <= q

Timer(k, r) == [kind |-> k, run |-> r]

\* variant: the deadline timer keeps rejecting into the run after its race
\* was settled
Settle_keepsLive(ts, k, r) == ts

\* the operation of a race settled first: its deadline timer stays pending
\* but its rejection no longer reaches the awaiting code
Settle(ts, k, r) == (ts \ {Timer(k, r)}) \cup
                    (IF Timer(k, r) \in ts THEN {Timer(k, 0)} ELSE {})

\* the page of the development server, without a configured URL
DevPage == [env |-> Undefined, protocol |-> "http:", hostname |-> "localhost",
            port |-> "5173"]

Init ==
    /\ page = DevPage
    /\ mounted = FALSE
    /\ status = LoadingMsg
    /\ retryCount = 0
    /\ trail = <<>>
    /\ closureRetryCount = 0
    /\ runs = [r \in Slots |-> IdleRun]
    /\ timers = {}
    /\ late = {}
    /\ retryTimers = 0
    /\ attempts = 0
    /\ failures = 0
    /\ posts = 0
    /\ leaked = 0

(***************************************************************************)
(* captureData: from the call to the first await                           *)
(***************************************************************************)
\* a continuation calls setStatus with the values of seq, in this order
SetStatus(seq) ==
    /\ status' = seq[Len(seq)]
    /\ trail' = trail \o seq

\* setStatus("Requesting camera access..."); await getUserMedia(...);
\* `before` holds what the caller passed to setStatus just before the call
StartCapture(rs, before) ==
    /\ FreeSlots # {}
    /\ status' = RequestingMsg
    /\ trail' = before \o <<RequestingMsg>>
    /\ runs' = [rs EXCEPT ![FreeSlot] = [IdleRun EXCEPT !.pc = "getUserMedia"]]
    /\ attempts' = Sat(attempts)

\* useEffect(() => { captureData(); }, [])
Mount ==
    /\ ~mounted
    /\ mounted' = TRUE
    /\ closureRetryCount' = retryCount
    /\ StartCapture(runs, <<>>)
    /\ UNCHANGED <<page, retryCount, timers, late, retryTimers, failures,
                   posts, leaked>>

(***************************************************************************)
(* The catch block of captureData                                          *)
(***************************************************************************)
\* the retryCount the running closure reads
RetryCountRead == closureRetryCount

ShouldRetry(rc) == rc < MAX_RETRIES

\* variant: a functional update, setRetryCount(c => c + 1)
NextRetryCount_functional(read, current) == current + 1

\* setRetryCount(retryCount + 1): `read` is the retryCount the closure reads,
\* `current` the value of the React state at that time
NextRetryCount(read, current) == read + 1

ErrorStatus(msg) == "Error: " \o msg

\* variant: the catch block stops the tracks of a stream that is still live
LeakedAfter_released(stream, n) == n

\* the catch block does not touch the stream: one that is live stays live
LeakedAfter(stream, n) == IF stream = "live" THEN Tally(n) ELSE n

\* run r threw an error with message msg
Catch(r, msg) ==
    /\ failures' = Sat(failures)
    /\ leaked' = LeakedAfter(runs[r].stream, leaked)
    /\ runs' = [runs EXCEPT ![r] = IdleRun]
    /\ IF ShouldRetry(RetryCountRead)
         THEN /\ SetStatus(<<ErrorStatus(msg)>>)
              /\ retryCount' = NextRetryCount(RetryCountRead, retryCount)
              /\ retryTimers' = retryTimers + 1
         ELSE /\ SetStatus(<<ErrorStatus(msg), FailedMsg>>)
              /\ UNCHANGED <<retryCount, retryTimers>>

\* setTimeout(() => { setStatus("Retrying..."); captureData(); }, 2000)
RetryTimerFire ==
    /\ retryTimers > 0
    /\ retryTimers' = retryTimers - 1
    /\ StartCapture(runs, <<RetryingMsg>>)
    /\ UNCHANGED <<page, mounted, retryCount, closureRetryCount, timers, late,
                   failures, posts, leaked>>

(***************************************************************************)
(* Media capture: lines 131-161                                            *)
(***************************************************************************)
\* canvas.toDataURL("image/jpeg", 0.8)
ToDataURL == Str("data:image/jpeg;base64,/9j/4AAQ")

\* getUserMedia resolved: video.srcObject = stream; the metadata race starts
CameraGranted(r) ==
    /\ runs[r].pc = "getUserMedia"
    /\ runs' = [runs EXCEPT ![r].pc = "metadata", ![r].stream = "live"]
    /\ timers' = timers \cup {Timer("video", r)}
    /\ UNCHANGED <<page, mounted, react, closureRetryCount, late, retryTimers, hist>>

\* getUserMedia rejected
CameraRejected(r) ==
    /\ runs[r].pc = "getUserMedia"
    /\ \E msg \in CameraErrors : Catch(r, msg)
    /\ UNCHANGED <<page, mounted, closureRetryCount, timers, late, attempts, posts>>

\* the 5000 ms timer of the metadata race rejects first
VideoTimeout(r) ==
    /\ Timer("video", r) \in timers
    /\ timers' = timers \ {Timer("video", r)}
    /\ late' = late \cup {"metadata"}
    /\ Catch(r, "Video load timeout")
    /\ UNCHANGED <<page, mounted, closureRetryCount, attempts, posts>>

(***************************************************************************)
(* getLocationWithFallback: lines 239-280                                  *)
(***************************************************************************)
\* variant: the tracks are not stopped
StopTracks_skipped(stream) == stream

\* stream.getTracks().forEach((track) => track.stop())
StopTracks(stream) == "stopped"

\* variant: the two setStatus calls swapped
CaptureStatuses_swapped == <<LocationMsg, CapturingMsg>>

\* setStatus("Capturing photo...") ... setStatus("Getting location...")
CaptureStatuses == <<CapturingMsg, LocationMsg>>

LocationOnSuccess(pos) ==
    [t |-> "object", latitude |-> Num(pos.latitude),
     longitude |-> Num(pos.longitude), accuracy |-> Num(pos.accuracy)]

\* variant: error: err.message
LocationOnError_bare(msg) ==
    [t |-> "object", latitude |-> Num(0), longitude |-> Num(0),
     error |-> Str(msg)]

LocationOnError(msg) ==
    [t |-> "object", latitude |-> Num(0), longitude |-> Num(0),
     error |-> Str("Location error: " \o msg)]

LocationOnTimeout ==
    [t |-> "object", latitude |-> Num(0), longitude |-> Num(0),
     error |-> Str("Location timeout - using default")]

\* onloadedmetadata fired first: capture the frame, stop the tracks,
\* setStatus("Getting location..."), call getLocationWithFallback
MetadataLoaded(r) ==
    /\ runs[r].pc = "metadata"
    /\ SetStatus(CaptureStatuses)
    /\ runs' = [runs EXCEPT ![r].pc = "location", ![r].image = ToDataURL,
                            ![r].stream = StopTracks(runs[r].stream)]
    /\ timers' = Settle(timers, "video", r) \cup {Timer("location", r)}
    /\ UNCHANGED <<page, mounted, retryCount, closureRetryCount, late, retryTimers,
                   hist>>

\* the continuation of `await getLocationWithFallback()` up to the IP race:
\* setStatus("Getting device info..."), deviceInfo, ipData = {ip: "Unknown"}
AfterLocation(r, loc, how, ts) ==
    /\ SetStatus(<<DeviceInfoMsg>>)
    /\ runs' = [runs EXCEPT ![r].pc = "ipfetch", ![r].location = loc,
                            ![r].geo = how,
                            ![r].deviceInfo = [t |-> "object"],
                            ![r].ipData = [t |-> "object", ip |-> Str("Unknown")]]
    /\ timers' = ts \cup {Timer("ip", r)}
    /\ UNCHANGED <<page, mounted, retryCount, closureRetryCount, retryTimers, hist>>

\* variant: the callbacks do not clear the timer
ClearTimeout_missing(ts, r) == ts

\* clearTimeout(timeoutId) in the callbacks of run r
ClearTimeout(ts, r) == ts \ {Timer("location", r)}

\* the geolocation success callback: clearTimeout, resolve
GeoSuccess(r) ==
    /\ runs[r].pc = "location"
    /\ \E pos \in Positions :
         AfterLocation(r, LocationOnSuccess(pos), "success",
                       ClearTimeout(timers, r))
    /\ UNCHANGED late

\* the geolocation error callback: clearTimeout, resolve the default
GeoError(r) ==
    /\ runs[r].pc = "location"
    /\ \E msg \in GeoErrors :
         AfterLocation(r, LocationOnError(msg), "error",
                       ClearTimeout(timers, r))
    /\ UNCHANGED late

\* the 10000 ms timer fires first and resolves the default
LocationTimeout(r) ==
    /\ Timer("location", r) \in timers
    /\ AfterLocation(r, LocationOnTimeout, "timeout",
                     timers \ {Timer("location", r)})
    /\ late' = late \cup {"geo"}

(***************************************************************************)
(* IP lookup and upload: lines 178-221                                     *)
(***************************************************************************)
\* hostname === "localhost" || hostname === "127.0.0.1" ? ":5000" : ""
PortSuffix(hostname) ==
    IF hostname = "localhost" \/ hostname = "127.0.0.1" THEN ":5000" ELSE ""

\* getApiUrl, for the page pg
GetApiUrl(pg) ==
    IF Truthy(pg.env)
      THEN pg.env.v
      ELSE pg.protocol \o "//" \o pg.hostname \o PortSuffix(pg.hostname)

\* variant: ipData?.ip, without the fallback
IpAddress_noFallback(ipData) == OptIp(ipData)

\* ipData?.ip || "Unknown"
IpAddress(ipData) == JsOr(OptIp(ipData), Str("Unknown"))

Payload(run) ==
    [t |-> "object", image |-> run.image, location |-> run.location,
     deviceInfo |-> run.deviceInfo, ipAddress |-> IpAddress(run.ipData)]

\* the continuation after the IP try/catch: setStatus("Saving data..."),
\* build the payload, start the upload race
Saving(r, run, ts) ==
    /\ SetStatus(<<SavingMsg>>)
    /\ runs' = [runs EXCEPT ![r] = [run EXCEPT !.pc = "upload",
                                               !.payload = Payload(run),
                                               !.apiUrl = GetApiUrl(page)]]
    /\ posts' = Tally(posts)
    /\ timers' = ts \cup {Timer("upload", r)}
    /\ UNCHANGED <<page, mounted, retryCount, closureRetryCount, retryTimers,
                   attempts, failures, leaked>>

\* the IP fetch resolved first; await ipResponse.json()
IpFetchResolved(r) ==
    /\ runs[r].pc = "ipfetch"
    /\ runs' = [runs EXCEPT ![r].pc = "ipjson"]
    /\ timers' = Settle(timers, "ip", r)
    /\ UNCHANGED <<page, mounted, react, closureRetryCount, late, retryTimers, hist>>

\* the IP fetch rejected first: the inner catch keeps {ip: "Unknown"}
IpFetchRejected(r) ==
    /\ runs[r].pc = "ipfetch"
    /\ Saving(r, [runs[r] EXCEPT !.ipLookup = "rejected"],
              Settle(timers, "ip", r))
    /\ UNCHANGED late

\* the 5000 ms timer of the IP race rejects first: inner catch
IpTimeout(r) ==
    /\ Timer("ip", r) \in timers
    /\ Saving(r, [runs[r] EXCEPT !.ipLookup = "timeout"],
              timers \ {Timer("ip", r)})
    /\ late' = late \cup {"ipfetch"}

\* ipResponse.json() resolved: ipData = body
IpJsonParsed(r) ==
    /\ runs[r].pc = "ipjson"
    /\ \E body \in IpBodies :
         Saving(r, [runs[r] EXCEPT !.ipData = body, !.ipLookup = "parsed"],
                timers)
    /\ UNCHANGED late

\* ipResponse.json() rejected: inner catch
IpJsonFailed(r) ==
    /\ runs[r].pc = "ipjson"
    /\ Saving(r, [runs[r] EXCEPT !.ipLookup = "parsefail"], timers)
    /\ UNCHANGED late

\* variant: the test inverted
ResponseOk_inverted(resp) == ~resp.ok

\* if (response.ok)
ResponseOk(resp) == resp.ok

\* the upload fetch resolved first, with response resp
PostResolved(r, resp) ==
    /\ runs[r].pc = "upload"
    /\ timers' = Settle(timers, "upload", r)
    /\ IF ResponseOk(resp)
         THEN /\ runs' = [runs EXCEPT ![r].pc = "respjson",
                                      ![r].response = resp]
              /\ UNCHANGED <<react, retryTimers, failures, leaked>>
         ELSE Catch(r, "Server error: " \o StatusText(resp.status))
    /\ UNCHANGED <<page, mounted, closureRetryCount, late, attempts, posts>>

\* the upload fetch rejected first (network error)
PostRejected(r) ==
    /\ runs[r].pc = "upload"
    /\ timers' = Settle(timers, "upload", r)
    /\ Catch(r, "Failed to fetch")
    /\ UNCHANGED <<page, mounted, closureRetryCount, late, attempts, posts>>

\* the 30000 ms timer of the upload race rejects first
UploadTimeout(r) ==
    /\ Timer("upload", r) \in timers
    /\ timers' = timers \ {Timer("upload", r)}
    /\ late' = late \cup {"post"}
    /\ Catch(r, "Upload timeout")
    /\ UNCHANGED <<page, mounted, closureRetryCount, attempts, posts>>

\* response.json() resolved: setStatus(success); captureData returns
RespJsonParsed(r) ==
    /\ runs[r].pc = "respjson"
    /\ SetStatus(<<SuccessMsg>>)
    /\ runs' = [runs EXCEPT ![r] = IdleRun]
    /\ UNCHANGED <<page, mounted, retryCount, closureRetryCount, timers, late,
                   retryTimers, hist>>

\* response.json() rejected
RespJsonFailed(r) ==
    /\ runs[r].pc = "respjson"
    /\ Catch(r, "Unexpected end of JSON input")
    /\ UNCHANGED <<page, mounted, closureRetryCount, timers, late, attempts, posts>>

(***************************************************************************)
(* Losers of settled races                                                 *)
(***************************************************************************)
\* a deadline timer fires after its race was settled: its reject is ignored
StaleTimerFire ==
    /\ \E k \in {"video", "ip", "upload"} :
         /\ Timer(k, 0) \in timers
         /\ timers' = timers \ {Timer(k, 0)}
    /\ UNCHANGED <<page, mounted, react, closureRetryCount, runs, late, retryTimers,
                   hist>>

\* an operation calls back after its deadline won: its resolve is ignored
LateCallback ==
    /\ \E k \in late : late' = late \ {k}
    /\ UNCHANGED <<page, mounted, react, closureRetryCount, runs, timers,
                   retryTimers, hist>>

Step(r) ==
    \/ CameraGranted(r)
    \/ CameraRejected(r)
    \/ VideoTimeout(r)
    \/ MetadataLoaded(r)
    \/ GeoSuccess(r)
    \/ GeoError(r)
    \/ LocationTimeout(r)
    \/ IpFetchResolved(r)
    \/ IpFetchRejected(r)
    \/ IpTimeout(r)
    \/ IpJsonParsed(r)
    \/ IpJsonFailed(r)
    \/ \E resp \in Responses : PostResolved(r, resp)
    \/ PostRejected(r)
    \/ UploadTimeout(r)
    \/ RespJsonParsed(r)
    \/ RespJsonFailed(r)

Next ==
    \/ Mount
    \/ RetryTimerFire
    \/ \E r \in Slots : Step(r)
    \/ StaleTimerFire
    \/ LateCallback

Spec == Init /\ [][Next]_vars

\* timers fire, and the browser and the servers answer every request
FairSpec ==
    /\ Spec
    /\ WF_vars(Mount)
    /\ WF_vars(RetryTimerFire)
    /\ WF_vars(StaleTimerFire \/ LateCallback)
    /\ WF_vars(\E r \in Slots : Step(r))

\* Scenario A of the specification: the camera is granted, the video metadata
\* loads before its deadline and the server answers the upload with 200 and a
\* JSON body; location and IP lookup are free
StepA(r) ==
    \/ CameraGranted(r)
    \/ MetadataLoaded(r)
    \/ GeoSuccess(r)
    \/ GeoError(r)
    \/ LocationTimeout(r)
    \/ IpFetchResolved(r)
    \/ IpFetchRejected(r)
    \/ IpTimeout(r)
    \/ IpJsonParsed(r)
    \/ IpJsonFailed(r)
    \/ PostResolved(r, [ok |-> TRUE, status |-> 200])
    \/ RespJsonParsed(r)

NextA ==
    \/ Mount
    \/ \E r \in Slots : StepA(r)
    \/ StaleTimerFire
    \/ LateCallback

SpecA == Init /\ [][NextA]_vars

(***************************************************************************)
(* Status projection: the render of App, lines 287-316                     *)
(***************************************************************************)
\* s.includes(m)
Includes(s, m) ==
    \E i \in 1..(Len(s) - Len(m) + 1) : SubSeq(s, i, i + Len(m) - 1) = m

\* which of the three branches of the render is taken
Mode(st) ==
    IF Includes(st, CheckMark) THEN "success"
    ELSE IF Includes(st, "Error") \/ Includes(st, "Failed") THEN "error"
    ELSE "progress"

\* {retryCount > 0 && <p>Attempt {retryCount + 1}/{MAX_RETRIES + 1}</p>}
AttemptCounter(rc) == IF rc > 0 THEN <<rc + 1, MAX_RETRIES + 1>> ELSE <<>>

\* what the component renders for the current state
Rendered ==
    [mode |-> Mode(status),
     counter |-> IF Mode(status) = "progress" THEN AttemptCounter(retryCount)
                 ELSE <<>>]

\* the pages the component can be served from
ConfiguredUrls == {Undefined, Str(""), Str("https://api.example.com")}
Protocols == {"http:", "https:"}
Hostnames == {"localhost", "127.0.0.1", "192.168.1.20", "capture.example.com"}
Ports == {"", "3000", "5000", "5173"}
Pages == [env : ConfiguredUrls, protocol : Protocols, hostname : Hostnames,
          port : Ports]

InitPages ==
    /\ page \in Pages
    /\ mounted = FALSE
    /\ status = LoadingMsg
    /\ retryCount = 0
    /\ trail = <<>>
    /\ closureRetryCount = 0
    /\ runs = [r \in Slots |-> IdleRun]
    /\ timers = {}
    /\ late = {}
    /\ retryTimers = 0
    /\ attempts = 0
    /\ failures = 0
    /\ posts = 0
    /\ leaked = 0

\* scenario A on every page: each run that reaches the upload calls getApiUrl
SpecPages == InitPages /\ [][NextA]_vars

\* a live deadline timer belongs to the race its run is suspended at
TimerOwner ==
    \A t \in timers : t.run # 0 =>
        runs[t.run].pc = (CASE t.kind = "video" -> "metadata"
                            [] t.kind = "location" -> "location"
                            [] t.kind = "ip" -> "ipfetch"
                            [] t.kind = "upload" -> "upload")

(***************************************************************************)
(* Properties                                                              *)
(***************************************************************************)
Idle == InProgress = {}
AtUpload(r) == runs[r].pc \in {"upload", "respjson"}

\* C1: captureData runs at most MAX_RETRIES + 1 = 4 times per mount, and the
\* status is the fixed failure message only after exactly 4 attempts.
C1_AtMostFourAttempts ==
    /\ attempts <= MAX_RETRIES + 1
    /\ status = FailedMsg => attempts = MAX_RETRIES + 1

\* C2: under fair scheduling, a run in which no attempt succeeds eventually
\* reaches the fixed failure status and stays there.
C2_AllFailingRunTerminates ==
    <>(status = SuccessMsg) \/ <>[](status = FailedMsg)

\* C3: in scenario A the first attempt ends with the success status, exactly
\* one POST is sent in the whole run and no retry is ever scheduled.
C3_HappyPathOnePost ==
    /\ posts <= 1
    /\ attempts <= 1
    /\ retryTimers = 0
    /\ failures = 0
    /\ (mounted /\ Idle) => (status = SuccessMsg /\ posts = 1)

C3_Witness ==
    /\ status = SuccessMsg
    /\ posts = 1
    /\ timers = {}
    /\ late = {}

\* C4: after k <= MAX_RETRIES failed attempts the retryCount state equals k.
C4_RetryCountCountsFailures ==
    failures <= MAX_RETRIES => retryCount = failures

\* C5: retryCount always lies in 0..MAX_RETRIES and no step decreases it.
C5_RetryCountBoundedMonotone ==
    /\ [](retryCount \in 0..MAX_RETRIES)
    /\ [][retryCount' >= retryCount]_vars

C5_Witness ==
    /\ failures >= 2
    /\ retryCount = 1

\* C6: once the status is the success status or the fixed failure status, no
\* step changes it, starts an attempt, sends an upload or schedules a timer;
\* the abandoned timers and late callbacks only drain.
C6_TerminalIsFinal ==
    [][(status = SuccessMsg \/ status = FailedMsg) =>
         (/\ status' = status
          /\ retryCount' = retryCount
          /\ runs' = runs
          /\ attempts' = attempts
          /\ posts' = posts
          /\ retryTimers' = retryTimers
          /\ timers' \subseteq timers
          /\ late' \subseteq late)]_vars

\* a success reached on a retry, after every abandoned timer and every late
\* callback of the earlier races has fired
C6_Witness ==
    /\ status = SuccessMsg
    /\ attempts >= 2
    /\ timers = {}
    /\ late = {}

IsNumber(x) == x.t = "number"
IsDefaultLocation(loc) ==
    /\ DOMAIN loc = {"t", "latitude", "longitude", "error"}
    /\ loc.latitude = Num(0)
    /\ loc.longitude = Num(0)
    /\ loc.error.t = "string"
    /\ loc.error.v # ""
PastLocation(r) == runs[r].pc \in {"ipfetch", "ipjson", "upload", "respjson"}

\* C7: whatever geolocation does, the location handed to captureData is an
\* object with numeric latitude and longitude, is {0, 0, non-empty error}
\* unless geolocation succeeded, and the run goes on to the upload without
\* entering the catch block.
C7_LocationNeverFails ==
    /\ [](\A r \in Slots : PastLocation(r) =>
            /\ runs[r].location.t = "object"
            /\ IsNumber(runs[r].location.latitude)
            /\ IsNumber(runs[r].location.longitude)
            /\ (runs[r].geo # "success" => IsDefaultLocation(runs[r].location)))
    /\ [][\A r \in Slots :
            runs[r].pc = "location" => runs'[r].pc \in {"location", "ipfetch"}]_vars

C7_Witness ==
    \E r \in Slots :
        /\ AtUpload(r)
        /\ runs[r].geo = "error"
        /\ runs[r].payload.location.error = Str("Location error: ")

UsableIp(body) ==
    /\ body.t = "object"
    /\ body.ip.t = "string"
    /\ body.ip.v # ""
IpLookupFailed(run) ==
    \/ run.ipLookup \in {"rejected", "timeout", "parsefail"}
    \/ run.ipLookup = "parsed" /\ ~UsableIp(run.ipData)

\* C8: when the IP lookup rejects, times out, or yields a body that does not
\* parse or has no usable ip, the payload's ipAddress is "Unknown" and the run
\* goes on to the upload without entering the catch block.
C8_IpFailureDegrades ==
    /\ [](\A r \in Slots : (AtUpload(r) /\ IpLookupFailed(runs[r])) =>
            runs[r].payload.ipAddress = Str("Unknown"))
    /\ [][\A r \in Slots :
            runs[r].pc \in {"ipfetch", "ipjson"} =>
                runs'[r].pc \in {"ipfetch", "ipjson", "upload"}]_vars

C8_Witness ==
    \E r \in Slots :
        /\ AtUpload(r)
        /\ runs[r].ipLookup = "parsed"
        /\ runs[r].ipData = JsNull
        /\ runs[r].payload.ipAddress = Str("Unknown")

Populated(x) == x.t \notin {"undefined", "null"}

\* C9: an upload is sent only by the step that follows the IP lookup of a run
\* whose image, location and device info are already there, and the payload
\* it carries has image, location, deviceInfo and ipAddress all populated.
C9_PayloadComplete ==
    /\ [](\A r \in Slots : AtUpload(r) =>
            /\ Populated(runs[r].payload.image)
            /\ Populated(runs[r].payload.location)
            /\ Populated(runs[r].payload.deviceInfo)
            /\ Populated(runs[r].payload.ipAddress)
            /\ runs[r].geo # "none"
            /\ runs[r].ipLookup # "none")
    /\ [][\A r \in Slots :
            (runs[r].pc # "upload" /\ runs'[r].pc = "upload") =>
                (/\ runs[r].pc \in {"ipfetch", "ipjson"}
                 /\ Populated(runs[r].image)
                 /\ Populated(runs[r].location)
                 /\ Populated(runs[r].deviceInfo))]_vars

C9_Witness ==
    \E r \in Slots :
        /\ runs[r].pc = "upload"
        /\ runs[r].geo = "timeout"
        /\ runs[r].ipLookup = "timeout"
        /\ runs[r].payload.ipAddress = Str("Unknown")
        /\ runs[r].payload.location = LocationOnTimeout

\* C10: at most one captureData is in progress and at most one retry timer is
\* pending, never both at once, and after the mount an attempt starts only
\* when a retry timer fires while no attempt is in progress.
C10_AttemptsSequential ==
    /\ [](/\ Cardinality(InProgress) <= 1
          /\ retryTimers <= 1
          /\ (retryTimers = 1 => Idle))
    /\ [][\A r \in Slots :
            (runs[r].pc = "idle" /\ runs'[r].pc = "getUserMedia") =>
                (\/ ~mounted
                 \/ (retryTimers = 1 /\ retryTimers' = 0 /\ Idle))]_vars

C10_Witness ==
    /\ attempts >= 3
    /\ Cardinality(InProgress) = 1
    /\ retryTimers = 0

IsErrorStatus(s) == Len(s) >= 7 /\ SubSeq(s, 1, 7) = "Error: "

\* some run leaves captureData through the catch block
Fails(r) == Running(r) /\ runs'[r].pc = "idle" /\ status' # SuccessMsg

FreshRun(run) == run = [IdleRun EXCEPT !.pc = "getUserMedia"]

C11_Step ==
    /\ \A r \in Slots : Fails(r) =>
         IF failures < MAX_RETRIES
           THEN /\ IsErrorStatus(status')
                /\ retryTimers' = retryTimers + 1
           ELSE /\ status' = FailedMsg
                /\ retryTimers' = retryTimers
    /\ retryTimers' < retryTimers =>
         /\ IsErrorStatus(status)
         /\ trail' = <<RetryingMsg, RequestingMsg>>
         /\ \E r \in Slots : ~Running(r) /\ FreshRun(runs'[r])

\* C11: a failure with retries remaining (fewer than MAX_RETRIES failures so
\* far) sets the status to the error's message and schedules a retry, whose
\* timer sets Retrying, then Requesting camera access, and starts a run with
\* no stream, image, location or IP data of the failed one; a failure with
\* the retries exhausted sets the fixed failure status.
C11_RetryFlow == [][C11_Step]_vars

\* window.location.origin
Origin(pg) ==
    pg.protocol \o "//" \o pg.hostname \o
    (IF pg.port = "" THEN "" ELSE ":" \o pg.port)

\* C12: the upload goes to the configured URL when one is set, else to
\* protocol//hostname:5000 on a loopback hostname, else to the page's own
\* origin (protocol, hostname and the page's port).
C12_EndpointResolution ==
    \A r \in Slots : AtUpload(r) =>
        runs[r].apiUrl =
            IF page.env.t = "string" /\ page.env.v # ""
              THEN page.env.v
              ELSE IF page.hostname \in {"localhost", "127.0.0.1"}
                     THEN page.protocol \o "//" \o page.hostname \o ":5000"
                     ELSE Origin(page)

\* the location of run r is the value resolved by whichever fired first
DecidedByFirst(run) ==
    CASE run.geo = "success" ->
           \E pos \in Positions : run.location = LocationOnSuccess(pos)
      [] run.geo = "error" ->
           \E msg \in GeoErrors : run.location = LocationOnError(msg)
      [] run.geo = "timeout" -> run.location = LocationOnTimeout
      [] OTHER -> FALSE

C13_LaterFiringIgnored ==
    \A r \in Slots :
        (PastLocation(r) /\ runs'[r].pc \in {"ipfetch", "ipjson", "upload",
                                             "respjson"}) =>
            (/\ runs'[r].location = runs[r].location
             /\ runs'[r].geo = runs[r].geo)

\* C13: the location a run continues with is the one resolved by the first
\* of success callback, error callback and 10000 ms timer to fire; nothing
\* that fires later changes it, and after a callback fired first no location
\* timer of the run is pending any more.
C13_FirstToFireDecides ==
    /\ [](\A r \in Slots : PastLocation(r) =>
            /\ DecidedByFirst(runs[r])
            /\ Timer("location", r) \notin timers
            /\ (runs[r].geo \in {"success", "error"} =>
                  \A t \in timers : t.kind = "location" => t.run # 0))
    /\ [][C13_LaterFiringIgnored]_vars

\* the timer fired first and the geolocation callback is still to come
C13_Witness ==
    \E r \in Slots :
        /\ PastLocation(r)
        /\ runs[r].geo = "timeout"
        /\ "geo" \in late

WaitPc(k) == CASE k = "video" -> "metadata"
            [] k = "location" -> "location"
            [] k = "ip" -> "ipfetch"
            [] k = "upload" -> "upload"

\* a step in which the loser of a settled race settles
LoserSettles ==
    \/ \E k \in {"video", "ip", "upload"} :
         Timer(k, 0) \in timers /\ Timer(k, 0) \notin timers'
    \/ late' # late /\ late' \subseteq late

\* the operation racing against the deadline of kind k
OpOf(k) == CASE k = "video" -> "metadata"
            [] k = "ip" -> "ipfetch"
            [] k = "upload" -> "post"

\* the outcome of race k of run r is the timeout one
TimeoutOutcome(k, r) ==
    CASE k = "video" ->
           status' = ErrorStatus("Video load timeout") /\ ~Running(r)'
      [] k = "upload" ->
           status' = ErrorStatus("Upload timeout") /\ ~Running(r)'
      [] k = "ip" ->
           runs'[r].pc = "upload" /\ runs'[r].ipLookup = "timeout"

\* the operation decided: the deadline timer stays behind, abandoned
OpDecides(k, r) ==
    Timer(k, 0) \in timers' /\ late' = late /\ ~TimeoutOutcome(k, r)

\* the deadline decided: the operation stays behind, abandoned
DeadlineDecides(k, r) ==
    Timer(k, 0) \notin timers' \ timers /\ OpOf(k) \in late'
    /\ TimeoutOutcome(k, r)

C14_Step ==
    /\ LoserSettles =>
         UNCHANGED <<status, retryCount, retryTimers, runs, attempts,
                     failures, posts>>
    /\ \A r \in Slots : \A k \in {"video", "ip", "upload"} :
         (Timer(k, r) \in timers /\ Timer(k, r) \notin timers') =>
             (OpDecides(k, r) \/ DeadlineDecides(k, r))

\* C14: while a run waits on a timeout-guarded step exactly its deadline
\* timer is live, and whichever of operation and deadline settles first
\* decides: the deadline gives the timeout error (or the IP fallback); the
\* loser settling later changes no status, retryCount, retry timer, run or
\* upload, and no attempt passes through the catch block twice.
C14_OneDecides ==
    /\ [](/\ \A t \in timers : t.run # 0 => runs[t.run].pc = WaitPc(t.kind)
          /\ \A r \in Slots : \A k \in {"video", "ip", "upload"} :
                runs[r].pc = WaitPc(k) => Timer(k, r) \in timers
          /\ failures <= attempts)
    /\ [][C14_Step]_vars

\* an abandoned video timer and an abandoned upload are both still to settle
C14_Witness ==
    /\ Timer("video", 0) \in timers
    /\ "post" \in late
    /\ Cardinality(InProgress) = 1

\* what the latest attempt passed to setStatus (without the retry timer's
\* "Retrying...")
AttemptTrail ==
    IF trail # <<>> /\ trail[1] = RetryingMsg THEN Tail(trail) ELSE trail

StepLabels == <<RequestingMsg, CapturingMsg, LocationMsg, DeviceInfoMsg,
                SavingMsg>>

\* t is a prefix of the step labels, followed by nothing, by the success
\* status (after the last label only) or by an error status
InOrder(t) ==
    \E n \in 1..Len(StepLabels) :
        /\ n <= Len(t)
        /\ SubSeq(t, 1, n) = SubSeq(StepLabels, 1, n)
        /\ LET rest == SubSeq(t, n + 1, Len(t))
           IN  \/ rest = <<>>
               \/ rest = <<SuccessMsg>> /\ n = Len(StepLabels)
               \/ Len(rest) = 1 /\ IsErrorStatus(rest[1])
               \/ Len(rest) = 2 /\ IsErrorStatus(rest[1]) /\ rest[2] = FailedMsg

IpInFlight(r) == runs[r].pc \in {"ipfetch", "ipjson"}

\* C15 as stated: the statuses of an attempt come in order and a status of
\* its own, different from every other step label, is shown while the IP
\* lookup is in flight.
C15_DistinctFetchingIP ==
    /\ mounted => InOrder(AttemptTrail)
    /\ \A r \in Slots : IpInFlight(r) =>
         \A i \in 1..Len(StepLabels) : status # StepLabels[i]

\* C15, amended: the statuses set by an attempt come in the order Requesting,
\* Capturing, Location, DeviceInfo, Saving, then Success or an error status,
\* none skipped; there is no status for the IP lookup: DeviceInfo is the
\* status while it is in flight.
C15_StatusOrder ==
    /\ mounted => (InOrder(AttemptTrail) /\ status = trail[Len(trail)])
    /\ \A r \in Slots : IpInFlight(r) =>
         (status = DeviceInfoMsg /\ Len(AttemptTrail) = 4)

C15_Witness ==
    /\ AttemptTrail = StepLabels \o <<SuccessMsg>>
    /\ trail[1] = RetryingMsg

AfterCapture(r) ==
    runs[r].pc \in {"location", "ipfetch", "ipjson", "upload", "respjson"}

C16_NoLeakAtEnd ==
    \A r \in Slots : (AfterCapture(r) /\ ~Running(r)') => leaked' = leaked

\* C16: once the frame is captured the stream of the attempt is stopped: it
\* is not live during location, IP lookup or upload, and the end of such an
\* attempt leaves no un-stopped stream behind.
C16_StreamStoppedAfterCapture ==
    /\ [](\A r \in Slots : AfterCapture(r) => runs[r].stream = "stopped")
    /\ [][C16_NoLeakAtEnd]_vars

C16_Witness ==
    \E r \in Slots : runs[r].pc = "respjson" /\ runs[r].stream = "stopped"

C17_Step ==
    /\ leaked' >= leaked
    /\ \A r \in Slots :
         (runs[r].pc = "metadata" /\ ~Running(r)') => leaked' = Tally(leaked)

\* C17: a run waiting for the video metadata holds a live stream; when it
\* fails there the stream is never stopped, every such failure adds one
\* un-stopped stream and none is ever released, so they accumulate while
\* later attempts acquire new streams.
C17_StreamLeaksOnVideoTimeout ==
    /\ [](\A r \in Slots : runs[r].pc = "metadata" => runs[r].stream = "live")
    /\ [][C17_Step]_vars

\* two leaked streams and the live stream of a third attempt
C17_Witness ==
    /\ leaked = 2
    /\ \E r \in Slots : runs[r].pc = "metadata" /\ runs[r].stream = "live"

ProgressStatuses ==
    {LoadingMsg, RequestingMsg, CapturingMsg, LocationMsg, DeviceInfoMsg,
     SavingMsg, RetryingMsg}

C18_Modes ==
    /\ status = SuccessMsg => Rendered.mode = "success"
    /\ (IsErrorStatus(status) \/ status = FailedMsg) => Rendered.mode = "error"
    /\ status \in ProgressStatuses => Rendered.mode = "progress"
    /\ status = SuccessMsg \/ IsErrorStatus(status) \/ status = FailedMsg
       \/ status \in ProgressStatuses

\* C18: the render shows success for the success status, error for every
\* error status and the fixed failure status, in-progress for every step
\* label; in progress an attempt counter is shown exactly when retryCount > 0
\* and reads retryCount + 1 of MAX_RETRIES + 1, the ordinal of the attempt
\* that is running.
C18_Projection ==
    /\ C18_Modes
    /\ Rendered.mode = "progress" =>
         /\ Rendered.counter # <<>> <=> retryCount > 0
         /\ Rendered.counter # <<>> =>
              /\ Rendered.counter = <<retryCount + 1, MAX_RETRIES + 1>>
              /\ ~Idle => Rendered.counter[1] = attempts

C19_Step ==
    /\ (status' = SuccessMsg /\ status # SuccessMsg) =>
         \E r \in Slots : /\ runs[r].pc = "respjson"
                          /\ runs[r].response.status \in 200..299
                          /\ ~Running(r)'
    /\ \A r \in Slots :
         (runs[r].pc = "respjson" /\ ~Running(r)' /\ status' # SuccessMsg) =>
             /\ IsErrorStatus(status')
             /\ failures' = Sat(failures)
             /\ failures < MAX_RETRIES => retryTimers' = retryTimers + 1
    /\ \A r \in Slots :
         (runs[r].pc # "upload" /\ runs'[r].pc = "upload") =>
             posts' = Tally(posts)

\* C19: the status becomes the success status only when the JSON body of a
\* 2xx response has been parsed; when the body of a 2xx response fails to
\* parse the run goes through the catch block like any failure: it counts as
\* failed and a retry is scheduled, and every attempt that gets that far
\* sends its own upload.
C19_SuccessOnlyAfterParse ==
    /\ [](\A r \in Slots : runs[r].pc = "respjson" =>
            runs[r].response.status \in 200..299)
    /\ [][C19_Step]_vars

\* the body of an accepted upload failed to parse and a retry is pending
C19_Witness ==
    /\ status = ErrorStatus("Unexpected end of JSON input")
    /\ retryTimers = 1
    /\ posts >= 1

====
